---- MODULE Spec2Model ----
(***************************************************************************)
(* A model of the Playfair cipher of src/src/main.rs.                      *)
(*                                                                         *)
(* A Rust char is modelled by its code point (a natural number), a String  *)
(* or Vec<char> by a TLA+ sequence of code points, and the table           *)
(* (Vec<Vec<char>>) by a sequence of rows.  Rust indices are 0-based: At,   *)
(* Cell and Insert take the 0-based index the code uses.                   *)
(***************************************************************************)
EXTENDS Naturals, Integers, Sequences, FiniteSets, TLC

\* ------------------------------------------------------------------ bounds
MaxKeyLen == 2
MaxTextLen == 3

\* ------------------------------------------------------------- characters
UPPER == << "A", "B", "C", "D", "E", "F", "G", "H", "I", "J", "K", "L", "M",
            "N", "O", "P", "Q", "R", "S", "T", "U", "V", "W", "X", "Y", "Z" >>

LOWER == << "a", "b", "c", "d", "e", "f", "g", "h", "i", "j", "k", "l", "m",
            "n", "o", "p", "q", "r", "s", "t", "u", "v", "w", "x", "y", "z" >>

\* the code point of a character literal ('A' = 65, 'a' = 97, '1' = 49, ...)
Ord(s) ==
    IF \E n \in 1..26 : UPPER[n] = s
    THEN 64 + (CHOOSE n \in 1..26 : UPPER[n] = s)
    ELSE IF \E n \in 1..26 : LOWER[n] = s
    THEN 96 + (CHOOSE n \in 1..26 : LOWER[n] = s)
    ELSE IF s = "1" THEN 49
    ELSE IF s = "-" THEN 45
    ELSE 32

\* a string literal, written as a sequence of one-character strings
Str(lits) == [n \in 1..Len(lits) |-> Ord(lits[n])]

\* char::is_ascii_alphabetic
is_ascii_alphabetic(c) == (65 <= c /\ c <= 90) \/ (97 <= c /\ c <= 122)

\* char::to_ascii_uppercase
to_ascii_uppercase(c) == IF 97 <= c /\ c <= 122 THEN c - 32 ELSE c

\* s[idx] with the 0-based index of the code
At(s, idx) == s[idx + 1]

\* Vec::insert(idx, x) with the 0-based index of the code
Insert(s, idx, x) == SubSeq(s, 1, idx) \o << x >> \o SubSeq(s, idx + 1, Len(s))

\* table[r][c] with the 0-based indices of the code
Cell(table, r, c) == table[r + 1][c + 1]

\* ------------------------------------------------- generate_playfair_table
\* the iterator key.chars().chain('A'..='Z')
KeyChain(key) == key \o [n \in 1..26 |-> 64 + n]

\* let c = if c == 'J' { 'I' } else { c.to_ascii_uppercase() };
FoldJ(c) == IF c = Ord("J") THEN Ord("I") ELSE to_ascii_uppercase(c)

\* one iteration of the for loop over st = [seen, table, row]
TableStep(st, c0) ==
    LET c == FoldJ(c0) IN
    IF is_ascii_alphabetic(c) /\ ~st.seen[c - 65]
    THEN LET row == Append(st.row, c) IN
         [ seen  |-> [st.seen EXCEPT ![c - 65] = TRUE],
           table |-> IF Len(row) = 5 THEN Append(st.table, row) ELSE st.table,
           row   |-> IF Len(row) = 5 THEN << >> ELSE row ]
    ELSE st

RECURSIVE TableLoop(_, _, _)
TableLoop(chain, n, st) ==
    IF n > Len(chain) THEN st
    ELSE TableLoop(chain, n + 1, TableStep(st, chain[n]))

generate_playfair_table(key) ==
    TableLoop(KeyChain(key), 1,
              [ seen |-> [x \in 0..25 |-> FALSE], table |-> << >>, row |-> << >> ]).table

\* ------------------------------------------------------------ find_position
\* the outcome of panic!("Character not found in table")
NotFound == << >>

\* row.iter().position(|&x| x == c): the first column holding c, or -1 for None
RowPosition(row, c) ==
    IF \E j \in 1..Len(row) : row[j] = c
    THEN (CHOOSE j \in 1..Len(row) :
              row[j] = c /\ \A j2 \in 1..(j - 1) : row[j2] # c) - 1
    ELSE -1

find_position(table, c) ==
    LET hits == { n \in 1..Len(table) : RowPosition(table[n], c) # -1 } IN
    IF hits = {} THEN NotFound
    ELSE LET n == CHOOSE m \in hits : \A m2 \in hits : m <= m2
         IN  << n - 1, RowPosition(table[n], c) >>

\* ----------------------------------------------------------- playfair_cipher
Encrypt == "Encrypt"
Decrypt == "Decrypt"
CipherMode == { Encrypt, Decrypt }

\* text.chars().filter(|c| c.is_ascii_alphabetic()).map(|c| c.to_ascii_uppercase())
FilterText(text) ==
    LET F[n \in 0..Len(text)] ==
            IF n = 0 THEN << >>
            ELSE IF is_ascii_alphabetic(text[n])
                 THEN Append(F[n - 1], to_ascii_uppercase(text[n]))
                 ELSE F[n - 1]
    IN  F[Len(text)]

\* FillerStep with the filler put after the pair instead of inside it
FillerStepAfterPair(chars, i) ==
    IF i + 1 < Len(chars) /\ At(chars, i) = At(chars, i + 1)
    THEN Insert(chars, i + 2, Ord("X"))
    ELSE chars

\* the body of the while loop, before i += 2
FillerStep(chars, i) ==
    IF i + 1 < Len(chars) /\ At(chars, i) = At(chars, i + 1)
    THEN Insert(chars, i + 1, Ord("X"))
    ELSE chars

RECURSIVE FillerLoop(_, _)
FillerLoop(chars, i) ==
    IF i < Len(chars) THEN FillerLoop(FillerStep(chars, i), i + 2) ELSE chars

\* if chars.len() % 2 != 0 { chars.push('X'); }
PadOdd(chars) == IF Len(chars) % 2 # 0 THEN Append(chars, Ord("X")) ELSE chars

\* the normalized text: chars as it stands when the substitution starts
Normalize(text) == PadOdd(FillerLoop(FilterText(text), 0))

\* Substitute with the column test made before the row test
SubstituteColumnFirst(table, p1, p2, mode) ==
    LET r1 == p1[1]
        c1 == p1[2]
        r2 == p2[1]
        c2 == p2[2]
        step == IF mode = Encrypt THEN 1 ELSE 4
    IN  IF c1 = c2
        THEN << Cell(table, (r1 + step) % 5, c1), Cell(table, (r2 + step) % 5, c2) >>
        ELSE IF r1 = r2
        THEN << Cell(table, r1, (c1 + step) % 5), Cell(table, r2, (c2 + step) % 5) >>
        ELSE << Cell(table, r1, c2), Cell(table, r2, c1) >>

\* Substitute with the second push of the rectangle swap forgotten
SubstituteOnePush(table, p1, p2, mode) ==
    LET r1 == p1[1]
        c1 == p1[2]
        r2 == p2[1]
        c2 == p2[2]
        step == IF mode = Encrypt THEN 1 ELSE 4
    IN  IF r1 = r2
        THEN << Cell(table, r1, (c1 + step) % 5), Cell(table, r2, (c2 + step) % 5) >>
        ELSE IF c1 = c2
        THEN << Cell(table, (r1 + step) % 5, c1), Cell(table, (r2 + step) % 5, c2) >>
        ELSE << Cell(table, r1, c2) >>

\* Substitute with the same-row branch of Encrypt missing: a digraph in one
\* row falls through to the rectangle swap
SubstituteNoRowShift(table, p1, p2, mode) ==
    LET r1 == p1[1]
        c1 == p1[2]
        r2 == p2[1]
        c2 == p2[2]
    IN  IF mode = Encrypt
        THEN IF c1 = c2 /\ r1 # r2
             THEN << Cell(table, (r1 + 1) % 5, c1), Cell(table, (r2 + 1) % 5, c2) >>
             ELSE << Cell(table, r1, c2), Cell(table, r2, c1) >>
        ELSE IF r1 = r2
             THEN << Cell(table, r1, (c1 + 4) % 5), Cell(table, r2, (c2 + 4) % 5) >>
             ELSE IF c1 = c2
             THEN << Cell(table, (r1 + 4) % 5, c1), Cell(table, (r2 + 4) % 5, c2) >>
             ELSE << Cell(table, r1, c2), Cell(table, r2, c1) >>

\* the two characters pushed for a digraph at positions p1 = (r1, c1), p2 = (r2, c2)
Substitute(table, p1, p2, mode) ==
    LET r1 == p1[1]
        c1 == p1[2]
        r2 == p2[1]
        c2 == p2[2]
    IN  IF mode = Encrypt
        THEN IF r1 = r2
             THEN << Cell(table, r1, (c1 + 1) % 5), Cell(table, r2, (c2 + 1) % 5) >>
             ELSE IF c1 = c2
             THEN << Cell(table, (r1 + 1) % 5, c1), Cell(table, (r2 + 1) % 5, c2) >>
             ELSE << Cell(table, r1, c2), Cell(table, r2, c1) >>
        ELSE IF r1 = r2
             THEN << Cell(table, r1, (c1 + 4) % 5), Cell(table, r2, (c2 + 4) % 5) >>
             ELSE IF c1 = c2
             THEN << Cell(table, (r1 + 4) % 5, c1), Cell(table, (r2 + 4) % 5, c2) >>
             ELSE << Cell(table, r1, c2), Cell(table, r2, c1) >>

\* one iteration of the for loop over chars.chunks(2): the chunk at k, k + 1;
\* NotFound when one of the two lookups panics
Chunk(table, chars, k, mode) ==
    LET p1 == find_position(table, At(chars, k))
        p2 == find_position(table, At(chars, k + 1))
    IN  IF p1 = NotFound \/ p2 = NotFound THEN NotFound
        ELSE Substitute(table, p1, p2, mode)

\* the outcome of a call: the String returned, or the panic
Returned(s) == [ panic |-> FALSE, result |-> s ]
Panicked == [ panic |-> TRUE, result |-> << >> ]

RECURSIVE ChunkLoop(_, _, _, _, _)
ChunkLoop(table, chars, k, mode, result) ==
    IF k >= Len(chars) THEN Returned(result)
    ELSE LET out == Chunk(table, chars, k, mode) IN
         IF out = NotFound THEN Panicked
         ELSE ChunkLoop(table, chars, k + 2, mode, result \o out)

playfair_cipher(text, table, mode) ==
    ChunkLoop(table, Normalize(text), 0, mode, << >>)

\* ------------------------------------------------------------------ inputs
\* the characters the keys and the texts are made of
KeyChars == { Ord("j"), Ord("J"), Ord("x"), Ord("1") }
TextChars == { Ord("c"), Ord("X"), Ord("Z"), Ord("J"), Ord("1") }

SeqsUpTo(S, n) == UNION { [1..m -> S] : m \in 0..n }

Keys == SeqsUpTo(KeyChars, MaxKeyLen)
Texts == SeqsUpTo(TextChars, MaxTextLen)

\* ------------------------------------------------------------------- state
VARIABLES
    key,      \* the key the table is generated from
    input,    \* the text given to the first call of playfair_cipher
    pass,     \* 1 in the first call, 2 in the call on the first call's result
    first,    \* chars and result of the first call, once the second has started
    text,     \* playfair_cipher: the argument text of the running call
    mode,     \* playfair_cipher: the argument mode of the running call
    table,    \* the table generated from key
    chars,    \* playfair_cipher: the local chars
    i,        \* playfair_cipher: the cursor of the while loop
    k,        \* playfair_cipher: the start of the next chunk of chars.chunks(2)
    result,   \* playfair_cipher: the local result
    pc        \* args, start, ready, scan, subst, done, panicked

vars == << key, input, pass, first, text, mode, table, chars, i, k, result, pc >>

\* main has not read its arguments yet
Init ==
    /\ key = << >>
    /\ input = << >>
    /\ mode = Encrypt
    /\ text = << >>
    /\ pass = 1
    /\ first = [ chars |-> << >>, result |-> << >>, mode |-> Encrypt ]
    /\ table = << >>
    /\ chars = << >>
    /\ i = 0
    /\ k = 0
    /\ result = << >>
    /\ pc = "args"

\* main reads the key, the input text and the decrypt flag
ReadArgs ==
    /\ pc = "args"
    /\ \E ky \in Keys, txt \in Texts, m \in CipherMode :
           /\ key' = ky
           /\ input' = txt
           /\ text' = txt
           /\ mode' = m
    /\ pc' = "start"
    /\ UNCHANGED << pass, first, table, chars, i, k, result >>

\* let table = generate_playfair_table(key);
BuildTable ==
    /\ pc = "start"
    /\ table' = generate_playfair_table(key)
    /\ pc' = "ready"
    /\ UNCHANGED << key, input, pass, first, text, mode, chars, i, k, result >>

\* playfair_cipher is entered: result is empty, chars is the filtered text, i = 0
Enter ==
    /\ pc = "ready"
    /\ result' = << >>
    /\ chars' = FilterText(text)
    /\ i' = 0
    /\ k' = 0
    /\ pc' = "scan"
    /\ UNCHANGED << key, input, pass, first, text, mode, table >>

\* one iteration of while i < chars.len()
Scan ==
    /\ pc = "scan"
    /\ i < Len(chars)
    /\ chars' = FillerStep(chars, i)
    /\ i' = i + 2
    /\ UNCHANGED << key, input, pass, first, text, mode, table, k, result, pc >>

\* the while loop is left; the odd length is padded
Pad ==
    /\ pc = "scan"
    /\ ~(i < Len(chars))
    /\ chars' = PadOdd(chars)
    /\ pc' = "subst"
    /\ UNCHANGED << key, input, pass, first, text, mode, table, i, k, result >>

\* one iteration of for chunk in chars.chunks(2), both characters found
ChunkFound ==
    /\ pc = "subst"
    /\ k < Len(chars)
    /\ Chunk(table, chars, k, mode) # NotFound
    /\ result' = result \o Chunk(table, chars, k, mode)
    /\ k' = k + 2
    /\ UNCHANGED << key, input, pass, first, text, mode, table, chars, i, pc >>

\* one iteration of for chunk in chars.chunks(2), find_position panics
ChunkPanic ==
    /\ pc = "subst"
    /\ k < Len(chars)
    /\ Chunk(table, chars, k, mode) = NotFound
    /\ pc' = "panicked"
    /\ UNCHANGED << key, input, pass, first, text, mode, table, chars, i, k, result >>

\* the for loop is over; result is returned
Return ==
    /\ pc = "subst"
    /\ ~(k < Len(chars))
    /\ pc' = "done"
    /\ UNCHANGED << key, input, pass, first, text, mode, table, chars, i, k, result >>

\* the returned string is given to a second call, in mode m, with the same table
Again(m) ==
    /\ pc = "done"
    /\ pass = 1
    /\ first' = [ chars |-> chars, result |-> result, mode |-> mode ]
    /\ pass' = 2
    /\ text' = result
    /\ mode' = m
    /\ pc' = "ready"
    /\ UNCHANGED << key, input, table, chars, i, k, result >>

Next ==
    \/ ReadArgs
    \/ BuildTable
    \/ Enter
    \/ Scan
    \/ Pad
    \/ ChunkFound
    \/ ChunkPanic
    \/ Return
    \/ \E m \in CipherMode : Again(m)

Spec == Init /\ [][Next]_vars

\* the call is sequential: while the loop has an iteration to run it runs it,
\* and when the loop is left the statement after it runs
LiveSpec == Init /\ [][Next]_vars /\ WF_vars(Scan) /\ WF_vars(Pad)

TypeOK ==
    /\ pc \in { "args", "start", "ready", "scan", "subst", "done", "panicked" }
    /\ pass \in { 1, 2 }
    /\ mode \in CipherMode
    /\ i \in Nat
    /\ k \in Nat

\* ----------------------------------------------------- notions of the claims
X == Ord("X")

\* the mode of the first call
FirstMode == IF pass = 1 THEN mode ELSE first.mode

\* the table has been generated
TableBuilt == pc \notin { "args", "start" }

\* chars is the normalized text: the while loop and the padding are over
Normalized == pc \in { "subst", "done", "panicked" }

\* the cells of a table, row-major
RECURSIVE Flatten(_)
Flatten(rows) == IF rows = << >> THEN << >> ELSE Head(rows) \o Flatten(Tail(rows))

\* the uppercase letters A..Z without J
Alphabet25 == { c \in 65..90 : c # Ord("J") }

AlphabetSeq == [n \in 1..26 |-> 64 + n]

\* the letter a key character stands for: uppercased, J and j both as I; 0 for a non-letter
KeyLetter(c) ==
    IF ~is_ascii_alphabetic(c) THEN 0
    ELSE IF to_ascii_uppercase(c) = Ord("J") THEN Ord("I")
    ELSE to_ascii_uppercase(c)

\* the letters of s from n on, in order of first occurrence after those of
\* placed; the non-letters (0) are skipped
RECURSIVE FirstOccurrences(_, _, _)
FirstOccurrences(s, n, placed) ==
    IF n > Len(s) THEN placed
    ELSE IF s[n] = 0 \/ (\E m \in 1..Len(placed) : placed[m] = s[n])
         THEN FirstOccurrences(s, n + 1, placed)
         ELSE FirstOccurrences(s, n + 1, Append(placed, s[n]))

\* the reference sequence of a key: its letters, then the letters not yet placed
ReferenceCells(k0) ==
    FirstOccurrences([n \in 1..Len(k0) |-> KeyLetter(k0[n])] \o
                     [n \in 1..26 |-> KeyLetter(AlphabetSeq[n])], 1, << >>)

\* the number of alphabetic characters of s
AlphaCount(s) == Cardinality({ n \in 1..Len(s) : is_ascii_alphabetic(s[n]) })

Uppercased(s) == [n \in 1..Len(s) |-> to_ascii_uppercase(s[n])]

\* the digraphs of an even-length sequence s are numbered 1..Len(s) \div 2
Digraphs(s) == 1..(Len(s) \div 2)
Fst(s, d) == s[2 * d - 1]
Snd(s, d) == s[2 * d]

\* the positions (row, column), 0-based, of the cells of t holding c
Places(t, c) ==
    { rc \in (0..(Len(t) - 1)) \X (0..4) : t[rc[1] + 1][rc[2] + 1] = c }

\* both letters of digraph d of s are in the table, in one row or in one column
OnOneLine(t, s, d) ==
    \E p \in Places(t, Fst(s, d)) : \E q \in Places(t, Snd(s, d)) :
        p[1] = q[1] \/ p[2] = q[2]

\* the forward-only single-pass builder: reads s from p on, never writes it
RECURSIVE Builder(_, _)
Builder(s, p) ==
    IF p > Len(s) THEN << >>
    ELSE IF p = Len(s) \/ s[p + 1] = s[p]
         THEN << s[p], X >> \o Builder(s, p + 1)
         ELSE << s[p], s[p + 1] >> \o Builder(s, p + 2)

KEYWORD == Str(<< "K", "E", "Y", "W", "O", "R", "D" >>)

KeywordTable ==
    << Str(<< "K", "E", "Y", "W", "O" >>),
       Str(<< "R", "D", "A", "B", "C" >>),
       Str(<< "F", "G", "H", "I", "L" >>),
       Str(<< "M", "N", "P", "Q", "S" >>),
       Str(<< "T", "U", "V", "X", "Z" >>) >>

\* ------------------------------------------------------------------ claims

\* C1: for every key the generated table has exactly 5 rows of exactly 5
\* cells, its 25 letters are pairwise distinct and are exactly the uppercase
\* letters A..Z without J.
C1_TableIsAlphabet25 ==
    TableBuilt =>
        /\ Len(table) = 5
        /\ \A r \in 1..Len(table) : Len(table[r]) = 5
        /\ \A m, n \in 1..Len(Flatten(table)) :
               m # n => Flatten(table)[m] # Flatten(table)[n]
        /\ { Flatten(table)[n] : n \in 1..Len(Flatten(table)) } = Alphabet25

\* C2: when the text is alphabetic, of even length and has no digraph of two
\* equal letters, encrypting it and decrypting the result with the same table
\* returns the uppercased text.
C2_Precondition ==
    /\ \A n \in 1..Len(input) : is_ascii_alphabetic(input[n])
    /\ Len(input) % 2 = 0
    /\ \A d \in Digraphs(input) :
           Fst(Uppercased(input), d) # Snd(Uppercased(input), d)

C2_RoundTrip ==
    /\ (C2_Precondition /\ pass = 1 /\ mode = Encrypt) => pc # "panicked"
    /\ (C2_Precondition /\ pass = 2 /\ first.mode = Encrypt /\ mode = Decrypt) =>
           /\ pc # "panicked"
           /\ pc = "done" => result = Uppercased(input)

\* C3: playfair_cipher has no error path: for every text, key and mode every
\* character of the normalized text is in the table, so find_position never
\* panics.
C3_NoPanic ==
    /\ pc # "panicked"
    /\ (Normalized /\ pass = 1) =>
           \A n \in 1..Len(chars) : find_position(table, chars[n]) # NotFound

\* (The examples on KEYWORD are constants: they are evaluated in the state
\* before the arguments are read, C6's on the runs of the empty text.)

\* C4: for each digraph (a, b) of the normalized text with positions (r1, c1)
\* and (r2, c2), the two characters emitted are: in one row, the cells one
\* column to the right (Encrypt) or to the left (Decrypt), wrapping; otherwise
\* in one column, the cells one row below (Encrypt) or above (Decrypt),
\* wrapping; otherwise table[r1][c2], table[r2][c1]. The row test comes first
\* and the outputs are appended in digraph order (KEYWORD, HELLO -> GYIZSC).
C4_Shift(m) == IF m = Encrypt THEN 1 ELSE 4

C4_Expected(t, a, b, m) ==
    LET pa == CHOOSE rc \in Places(t, a) : TRUE
        pb == CHOOSE rc \in Places(t, b) : TRUE
    IN  IF pa[1] = pb[1]
        THEN << t[pa[1] + 1][((pa[2] + C4_Shift(m)) % 5) + 1],
                t[pb[1] + 1][((pb[2] + C4_Shift(m)) % 5) + 1] >>
        ELSE IF pa[2] = pb[2]
        THEN << t[((pa[1] + C4_Shift(m)) % 5) + 1][pa[2] + 1],
                t[((pb[1] + C4_Shift(m)) % 5) + 1][pb[2] + 1] >>
        ELSE << t[pa[1] + 1][pb[2] + 1], t[pb[1] + 1][pa[2] + 1] >>

C4_HelloExample ==
    playfair_cipher(Str(<< "H", "E", "L", "L", "O" >>),
                    generate_playfair_table(KEYWORD), Encrypt)
        = Returned(Str(<< "G", "Y", "I", "Z", "S", "C" >>))

C4_DigraphRules ==
    /\ Normalized =>
           /\ Len(result) = k
           /\ \A d \in 1..(k \div 2) :
                  << Fst(result, d), Snd(result, d) >> =
                      C4_Expected(table, Fst(chars, d), Snd(chars, d), mode)
    /\ pc = "args" => C4_HelloExample

\* a run that emitted a one-row digraph and a one-column digraph
C4_Witness ==
    /\ pc = "done"
    /\ \E d \in Digraphs(chars) :
           \E p \in Places(table, Fst(chars, d)) : \E q \in Places(table, Snd(chars, d)) :
               p[1] = q[1] /\ p[2] # q[2]
    /\ \E d \in Digraphs(chars) :
           \E p \in Places(table, Fst(chars, d)) : \E q \in Places(table, Snd(chars, d)) :
               p[1] # q[1] /\ p[2] = q[2]
    /\ Len(result) = 4

\* C5: the table read row-major is the reference sequence of the key: the
\* key's letters uppercased, J and j as I, in order of first occurrence, then
\* the letters of A..Z without J not yet placed; the empty key gives the
\* alphabet without J and KEYWORD gives KEYWO / RDABC / FGHIL / MNPQS / TUVXZ.
C5_Examples ==
    /\ Flatten(generate_playfair_table(<< >>)) =
           [n \in 1..25 |-> IF n < 10 THEN 64 + n ELSE 65 + n]
    /\ generate_playfair_table(KEYWORD) = KeywordTable

C5_TableIsReference ==
    /\ TableBuilt => Flatten(table) = ReferenceCells(key)
    /\ pc = "args" => C5_Examples

\* C6: the in-place filler insertion terminates and leaves in chars the
\* sequence the forward-only single-pass builder makes of the filtered text
\* (emit (a, X) and advance by one when the next character equals a or a is
\* the last one, emit (a, b) and advance by two otherwise); BALLOON becomes
\* BA LX LO ON and encrypts to CBIZSCES under KEYWORD.
C6_BalloonExample ==
    /\ Normalize(Str(<< "B", "A", "L", "L", "O", "O", "N" >>))
           = Str(<< "B", "A", "L", "X", "L", "O", "O", "N" >>)
    /\ playfair_cipher(Str(<< "B", "A", "L", "L", "O", "O", "N" >>),
                       generate_playfair_table(KEYWORD), Encrypt)
           = Returned(Str(<< "C", "B", "I", "Z", "S", "C", "E", "S" >>))

C6_InPlaceIsBuilder ==
    pc = "scan" ~>
        /\ pc = "subst"
        /\ chars = Builder(FilterText(text), 1)
        /\ text = << >> => C6_BalloonExample

\* the loop inserted a filler and the padding appended one
C6_Witness ==
    /\ pc = "subst"
    /\ k = 0
    /\ Len(FilterText(text)) = 3
    /\ Len(chars) >= Len(FilterText(text)) + 2
    /\ \E n \in 1..(Len(text) - 1) : text[n] # X /\ text[n] = text[n + 1]

\* C7: the string returned has even length, the length of the normalized
\* text: the alphabetic characters of the text plus the fillers; the
\* non-alphabetic characters contribute nothing.
C7_EvenLength ==
    pc = "done" =>
        /\ Len(result) % 2 = 0
        /\ Len(result) = Len(chars)
        /\ Len(chars) = Len(Builder(FilterText(text), 1))
        /\ AlphaCount(text) <= Len(result)
        /\ Len(result) <= 2 * AlphaCount(text)

\* a returned string for a text with a non-alphabetic character and fillers
C7_Witness ==
    /\ pc = "done"
    /\ AlphaCount(text) < Len(text)
    /\ AlphaCount(text) = 2
    /\ Len(result) = 4

\* C8: for every key and text, decrypting the encrypted text returns the
\* normalized text, fillers included.
C8_DecryptRestoresNormalized ==
    /\ (pass = 1 /\ mode = Encrypt) => pc # "panicked"
    /\ (pass = 2 /\ first.mode = Encrypt /\ mode = Decrypt) =>
           /\ pc # "panicked"
           /\ Normalized => chars = first.result
           /\ pc = "done" => result = first.chars

\* C9: for every table and every text with at least one letter, encrypting
\* twice does not return the normalized text.
C9_TwiceNeverRestores ==
    (/\ pass = 2
     /\ first.mode = Encrypt
     /\ mode = Encrypt
     /\ pc = "done"
     /\ AlphaCount(input) >= 1) => result # first.chars

\* C9, amended: when a digraph of the normalized text has its two letters in
\* one row or one column of the table, encrypting twice does not return the
\* normalized text; when no digraph has, encrypting twice returns it.
C9_TwiceRestoresOnlyRectangles ==
    (pass = 2 /\ first.mode = Encrypt /\ mode = Encrypt /\ pc = "done") =>
        (result # first.chars <=>
            \E d \in Digraphs(first.chars) : OnOneLine(table, first.chars, d))

\* a second encryption of a text with a one-line digraph and another one
C9_Witness ==
    /\ pass = 2
    /\ first.mode = Encrypt
    /\ mode = Encrypt
    /\ pc = "done"
    /\ Len(first.chars) = 4
    /\ OnOneLine(table, first.chars, 1)
    /\ ~OnOneLine(table, first.chars, 2)

\* C10: no digraph of the normalized text has two equal letters.
C10_NoEqualDigraph ==
    (Normalized /\ pass = 1) =>
        \A d \in Digraphs(chars) : Fst(chars, d) # Snd(chars, d)

====
